---- MODULE Spec2Model ----
(***************************************************************************)
(* The content acquisition pipeline of the mobile client: the download     *)
(* queue (queueDownload / processQueue), the pipeline run (downloadPost,   *)
(* saveContent, downloadMedia), the enrichment step (analyzePost) and the  *)
(* callers that start runs (the drain loop, retryDownload, the background  *)
(* fetch task).                                                            *)
(*                                                                         *)
(* JavaScript runs one callback at a time: an action is the code between   *)
(* two awaits.  A run's pc names the await it is suspended on; the action  *)
(* taken from that pc is the awaited call's effect followed by the         *)
(* synchronous code up to the next await.                                  *)
(***************************************************************************)
EXTENDS Integers, Sequences, FiniteSets, TLC

\* ------------------------------------------------------------------ bounds
MaxMedia == 2        \* media references of a remote post
MaxRuns == 2         \* SpecRun: downloadPost calls, one after the other
MaxEnqueues == 3     \* Spec: queueDownload calls
MaxFaults == 1       \* Spec: persistence calls that throw
MaxClock == 1        \* Date.now() readings range over 0..MaxClock
MaxOverlapEnqueues == 1  \* SpecAll: queueDownload calls
MaxOverlapRetries == 1   \* SpecAll: retryDownload calls
MaxBgRuns == 1           \* SpecAll: firings of the background fetch task

\* --------------------------------------------------------------- constants
MAX_VIDEO_SIZE_BYTES == 104857600
BG_BATCH == 5

PostIds == {"p1", "p2"}
NoPost == "none"
Priorities == {0, 1}
GroupNames == {"g1"}
NULL == "null"

LoopProcs == {"loop1", "loop2"}
Procs == LoopProcs \cup {"retry", "bg"}

MediaTypes == {"image", "video"}
TerminalPost == {"completed", "partial", "failed"}
TerminalMedia == {"completed", "failed", "skipped"}

\* Sequences over S of length at most n.
SeqsUpTo(S, n) == UNION {[1..k -> S] : k \in 0..n}

\* ---------------------------------------------------------------- progress
\* A progress fraction is <<n, e>>: the double nearest n/10000, plus e units
\* in the last place.  0.4 + 1 * 0.45 evaluates to 0.8500000000000001 in
\* IEEE-754 doubles, which is <<8500, 1>>.
Prog(n) == <<n, 0>>

ProgLeq(a, b) == a[1] < b[1] \/ (a[1] = b[1] /\ a[2] <= b[2])

\* Units in the last place by which the double 0.4 + (k / n) * 0.45 exceeds
\* the double nearest the exact sum (n up to 6, k up to n, and k = n + 1 for
\* n up to 3).
FloatExcess(k, n) ==
  IF k = n \/ (k = 1 /\ n \in {4, 5, 6}) \/ (k = 2 /\ n = 5) \/ (k = 3 /\ n = 2)
  THEN 1 ELSE 0

\* totalProgress = 0.4 + mediaProgress * 0.45, mediaProgress = k / n.
TotalProgress(k, n) == <<4000 + (k * 4500) \div n, FloatExcess(k, n)>>

VARIABLES
  posts,              \* posts table: post id -> download_status, or "absent"
  content,            \* content table: post id -> rows (post_id is UNIQUE)
  media,              \* media table: rows in insertion order, id = index
  aiResults,          \* ai_results table: post id -> number of rows
  groups,             \* groups table: rows in insertion order, id = index
  downloadTasks,      \* download_tasks table: rows in insertion order
  urlHashes,          \* posts table: post id -> url_hash (UNIQUE), or NULL
  xhsUrlPatterns,     \* the shape of the imported XHS_URL_PATTERNS
  share,              \* per caller: the share-handler call it awaits
  remote,             \* what the crawl API returns for a post: media types
  sizes,              \* per media reference: the size the crawl reports, and
                      \* the size of the file a transfer stores
  progressListeners,  \* the registered progress listeners, in the order of
                      \* their registration
  run,                \* per caller: the downloadPost execution it awaits
  downloadQueue,      \* the module-level queue
  isProcessing,       \* the module-level flag
  loopOn,             \* per drain loop: whether it is between start and exit
  loopItem,           \* per drain loop: the item it shifted last
  bgPosts,            \* the background task's posts still to download
  clock,              \* the last Date.now() reading
  calls,              \* calls made and faults injected so far
  limit               \* how many of each a behaviour may hold

vars == <<posts, content, media, aiResults, groups, downloadTasks, urlHashes,
          xhsUrlPatterns, share, remote, sizes,
          progressListeners, run, downloadQueue, isProcessing, loopOn, loopItem, bgPosts, clock,
          calls, limit>>

dbVars == <<posts, content, media, aiResults, groups>>
queueVars == <<downloadQueue, isProcessing, loopOn, loopItem, bgPosts, clock>>
\* What the share handler works on.
intakeVars == <<urlHashes, xhsUrlPatterns, share>>

\* What no step of the pipeline writes: the environment, the state of the
\* share handler, and the download_tasks table, which has a schema and no
\* statement that touches it.
envVars == <<remote, sizes, progressListeners, limit, downloadTasks, intakeVars>>

\* --------------------------------------------------------------- run record
IdleRun ==
  [pc |-> "idle", postId |-> NoPost, items |-> <<>>, recs |-> <<>>, i |-> 0,
   completedCount |-> 0, hasFailures |-> FALSE, mediaSuccess |-> FALSE,
   hasContent |-> FALSE, suggested |-> NULL, groupId |-> 0, ret |-> "none",
   \* history of this run, read only by the properties
   crawl |-> "none", enrich |-> "none", wrote |-> FALSE, sent |-> <<>>,
   made |-> 0, incs |-> 0, text |-> NULL, probe |-> <<>>, error |-> NULL,
   statuses |-> <<>>,
   heard |-> {}, listenerThrew |-> FALSE,
   \* an exception of a listener is on its way to a handler
   threw |-> FALSE]

\* A run of downloadPost is between its start and its return (the background
\* task awaiting getAllPosts has not started one).
InFlight(pr) == run[pr].pc \notin {"idle", "done", "bgGetAll"}

\* The outcome of a persistence call: it may throw while faults remain.
DbOutcomes == IF calls.faults < limit.faults THEN {TRUE, FALSE} ELSE {TRUE}

Charge(ok) == calls' = IF ok THEN calls ELSE [calls EXCEPT !.faults = @ + 1]

\* A listener: a callback that returns, or that throws from its throwAt-th
\* call of a run (on that call alone, or on every call from it).
Listener(id, throwAt, again) == [id |-> id, throwAt |-> throwAt, again |-> again]

\* Listener l throws when it is called with the k-th notification of a run.
Throws(l, k) == l.throwAt # 0 /\ (k = l.throwAt \/ (l.again /\ k > l.throwAt))

\* The position of the first listener that throws on the k-th notification,
\* 0 when none does.
FirstThrowing(k) ==
  LET bad == {j \in DOMAIN progressListeners : Throws(progressListeners[j], k)}
  IN IF bad = {} THEN 0 ELSE CHOOSE j \in bad : \A j2 \in bad : j <= j2

\* A notifyProgress that calls each listener inside a try of its own.
notifyProgressGuarded(r, progress, status) ==
  IF r.threw \/ progressListeners = <<>>
  THEN r
  ELSE LET k == Len(r.sent) + 1
       IN [r EXCEPT !.sent = Append(@, <<r.postId, progress, status>>),
                    !.heard = @ \cup {<<progressListeners[j].id, k>> :
                                        j \in DOMAIN progressListeners}]

\* notifyProgress: forEach calls the registered listeners in order with the
\* triple; what a listener throws ends the forEach and reaches the caller.
notifyProgress(r, progress, status) ==
  IF r.threw \/ progressListeners = <<>>
  THEN r
  ELSE LET k == Len(r.sent) + 1
           t == FirstThrowing(k)
           called == IF t = 0 THEN DOMAIN progressListeners ELSE 1..t
       IN [r EXCEPT !.sent = Append(@, <<r.postId, progress, status>>),
                    !.heard = @ \cup {<<progressListeners[j].id, k>> : j \in called},
                    !.threw = t # 0]

\* updatePostStatus(r.postId, status) has stored the status.
Stored(r, status) == [r EXCEPT !.statuses = Append(@, status)]

\* The run ends: downloadPost returns true / false, or throws.
Finish(r, ret) == [r EXCEPT !.pc = "done", !.ret = ret]

\* An exception inside downloadPost's try block: the catch awaits
\* updatePostStatus(postId, 'failed').
ToCatch(r) == [r EXCEPT !.pc = "catchSetFailed"]

\* Where the exception of a listener lands.  The broadcasts at the start of
\* downloadPost and in its catch block have no handler; the onProgress of the
\* skip branch is inside the try of the loop iteration; every other broadcast
\* is inside downloadPost's try and nothing nearer.
Thrown(r0, r) ==
  LET r1 == [r EXCEPT !.threw = FALSE, !.listenerThrew = TRUE, !.i = r0.i,
                      !.probe = r0.probe, !.mediaSuccess = r0.mediaSuccess]
  IN IF r0.pc \in {"setDownloading", "catchSetFailed"}
     THEN [r1 EXCEPT !.pc = "done", !.ret = "throw"]
     ELSE IF r0.pc = "setSkipped" /\ Len(r.sent) = Len(r0.sent) + 1
          THEN [r1 EXCEPT !.pc = "setMediaFailedCatch"]
          ELSE [r1 EXCEPT !.pc = "catchSetFailed"]

\* The run of pr is suspended on its next await, or has ended.
SetRun(pr, r) == run' = [run EXCEPT ![pr] = IF r.threw THEN Thrown(run[pr], r) ELSE r]

\* ------------------------------------------------- downloadPost: the stages
\* A downloadPost for which a downloadMedia that returns false is fatal.
EndMediaFatal(r, success) ==
  IF success
  THEN [notifyProgress([r EXCEPT !.mediaSuccess = success, !.probe = <<>>],
                       Prog(8500), "downloading")
          EXCEPT !.pc = "aiGetExisting"]
  ELSE ToCatch(r)

\* analyzePost is entered: it runs up to its first await.
EndMedia(r, success) ==
  [notifyProgress([r EXCEPT !.mediaSuccess = success, !.probe = <<>>],
                  Prog(8500), "downloading")
     EXCEPT !.pc = "aiGetExisting"]

\* The media loop reaches record i: a video is probed first.
BeginItem(r, i) ==
  [r EXCEPT !.i = i, !.probe = <<>>,
            !.pc = IF r.items[i] = "video" THEN "probe" ELSE "setMediaDownloading"]

\* The end of one loop iteration: completedCount++, onProgress, next record.
AfterItem(r) ==
  LET n == Len(r.recs)
      c == r.completedCount + 1
      r1 == notifyProgress([r EXCEPT !.completedCount = c],
                           TotalProgress(c, n), "downloading")
  IN IF r.i < n THEN BeginItem(r1, r.i + 1) ELSE EndMedia(r1, ~r1.hasFailures)

\* A downloadPost that calls analyzePost before downloadMedia has run.
AfterSaveContentNoMedia(r) ==
  EndMedia(notifyProgress([r EXCEPT !.text = NULL], Prog(4000), "downloading"), TRUE)

\* saveContent has returned (the crawled text has served): 0.4 is broadcast
\* and downloadMedia is entered.
AfterSaveContent(r) ==
  LET r1 == notifyProgress([r EXCEPT !.text = NULL], Prog(4000), "downloading")
  IN IF r1.items = <<>>
     THEN EndMedia(notifyProgress(r1, TotalProgress(1, 1), "downloading"), TRUE)
     ELSE [r1 EXCEPT !.pc = "createMedia", !.i = 1]

\* A downloadPost that counts a failed analysis as a failure of the run.
AfterAnalyzeCounted(r, outcome) ==
  [r EXCEPT !.enrich = outcome, !.pc = "setFinal",
            !.mediaSuccess = @ /\ outcome \in {"success", "existing"}]

\* analyzePost has returned (it catches what it throws).
AfterAnalyze(r, outcome) == [r EXCEPT !.enrich = outcome, !.pc = "setFinal"]

FinalStatus(r) == IF r.mediaSuccess THEN "completed" ELSE "partial"

\* checkRemoteFileSize returns null (here NoSize) when the size is unknown.
NoSize == -1

\* parseInt of a content-length header that holds no number.
NaN == -2

\* size <= MAX_VIDEO_SIZE_BYTES is false when size is NaN.
isVideoWithinLimit(size) ==
  size = NoSize \/ (size # NaN /\ size <= MAX_VIDEO_SIZE_BYTES)

ProbeSizes == {NoSize, NaN, MAX_VIDEO_SIZE_BYTES, MAX_VIDEO_SIZE_BYTES + 1}

getMediaPath(postId, index, type) == <<type, postId, index>>

\* The first group row of that name, or 0.
GroupByName(name) ==
  LET S == {g \in 1..Len(groups) : groups[g].name = name}
  IN IF S = {} THEN 0 ELSE CHOOSE g \in S : \A h \in S : g <= h

\* A caller invokes downloadPost(p): it runs up to await getPostById.
StartRun(p) == [IdleRun EXCEPT !.pc = "getPost", !.postId = p]

GetPost(pr) ==
  LET r == run[pr] IN
  /\ r.pc = "getPost"
  /\ \E ok \in DbOutcomes :
       /\ Charge(ok)
       /\ SetRun(pr, IF ~ok THEN Finish(r, "throw")
                     ELSE IF posts[r.postId] = "absent" THEN Finish(r, "false")
                     ELSE [r EXCEPT !.pc = "setDownloading"])
  /\ UNCHANGED <<dbVars, queueVars, envVars>>

SetDownloading(pr) ==
  LET r == run[pr] IN
  /\ r.pc = "setDownloading"
  /\ \E ok \in DbOutcomes :
       /\ Charge(ok)
       /\ IF ok
          THEN /\ posts' = [posts EXCEPT ![r.postId] = "downloading"]
               /\ SetRun(pr, [notifyProgress(Stored(r, "downloading"), Prog(0),
                                              "downloading")
                                EXCEPT !.pc = "crawl"])
          ELSE /\ SetRun(pr, Finish(r, "throw"))
               /\ UNCHANGED posts
  /\ UNCHANGED <<content, media, aiResults, groups, queueVars, envVars>>

\* A downloadPost that does not look at crawlResult.success.
AfterCrawlUnchecked(r, success) ==
  [notifyProgress([r EXCEPT !.crawl = IF success THEN "ok" ELSE "fail",
                            !.items = remote[r.postId]],
                  Prog(3000), "downloading")
     EXCEPT !.pc = "getContent"]

\* crawlPost has returned: on success 0.3 is broadcast and saveContent is
\* entered, otherwise the run awaits updatePostStatus(postId, 'failed').
AfterCrawl(r, success) ==
  IF success
  THEN [notifyProgress([r EXCEPT !.crawl = "ok", !.items = remote[r.postId]],
                       Prog(3000), "downloading")
          EXCEPT !.pc = "getContent"]
  ELSE [r EXCEPT !.crawl = "fail", !.pc = "setFailed"]

\* The texts a crawl may extract from the page of a post.
Texts == {"t1", "t2"}

\* The errorMessage of a crawl that failed.
ErrorMessages == {"timeout", "Crawl failed: no data returned"}

\* crawlPost catches what it throws and returns success or not.
Crawl(pr) ==
  LET r == run[pr] IN
  /\ r.pc = "crawl"
  /\ \E success \in BOOLEAN, text \in Texts, message \in ErrorMessages :
       SetRun(pr, AfterCrawl([r EXCEPT !.text = IF success THEN text ELSE NULL,
                                       !.error = IF success THEN NULL ELSE message],
                             success))
  /\ UNCHANGED <<dbVars, queueVars, envVars, calls>>

\* A crawl failure branch that returns false without the broadcast.
CrawlFailedSilent(r) == Finish(r, "false")

\* The crawl failed and 'failed' is stored: the broadcast and return false
\* (crawlResult, its errorMessage unread, goes out of scope).
CrawlFailed(r) ==
  Finish(notifyProgress([r EXCEPT !.error = NULL], Prog(0), "failed"), "false")

SetFailed(pr) ==
  LET r == run[pr] IN
  /\ r.pc = "setFailed"
  /\ \E ok \in DbOutcomes :
       /\ Charge(ok)
       /\ IF ok
          THEN /\ posts' = [posts EXCEPT ![r.postId] = "failed"]
               /\ SetRun(pr, CrawlFailed(Stored(r, "failed")))
          ELSE /\ SetRun(pr, ToCatch(r))
               /\ UNCHANGED posts
  /\ UNCHANGED <<content, media, aiResults, groups, queueVars, envVars>>

\* A content table without the UNIQUE constraint on post_id.
ContentInsertAlways(postId) == TRUE

\* The INSERT of createContent is accepted: content.post_id is UNIQUE.
ContentInsertOk(postId) == content[postId] = <<>>

GetContent(pr) ==
  LET r == run[pr] IN
  /\ r.pc = "getContent"
  /\ \E ok \in DbOutcomes :
       /\ Charge(ok)
       /\ SetRun(pr, IF ~ok THEN ToCatch(r)
                     ELSE IF content[r.postId] # <<>> THEN AfterSaveContent(r)
                     ELSE [r EXCEPT !.pc = "createContent"])
  /\ UNCHANGED <<dbVars, queueVars, envVars>>

CreateContent(pr) ==
  LET r == run[pr] IN
  /\ r.pc = "createContent"
  /\ \E ok \in DbOutcomes, hasTitle \in BOOLEAN :
       /\ Charge(ok)
       /\ IF ok /\ ContentInsertOk(r.postId)
          THEN /\ content' = [content EXCEPT ![r.postId] = Append(@, r.text)]
               /\ SetRun(pr, IF hasTitle
                             THEN [r EXCEPT !.wrote = TRUE, !.pc = "getPostTitle"]
                             ELSE AfterSaveContent([r EXCEPT !.wrote = TRUE]))
          ELSE \* the call failed, or the UNIQUE(post_id) constraint did
               /\ SetRun(pr, ToCatch(r))
               /\ UNCHANGED content
  /\ UNCHANGED <<posts, media, aiResults, groups, queueVars, envVars>>

GetPostTitle(pr) ==
  LET r == run[pr] IN
  /\ r.pc = "getPostTitle"
  /\ \E ok \in DbOutcomes :
       /\ Charge(ok)
       /\ SetRun(pr, IF ok THEN AfterSaveContent(r) ELSE ToCatch(r))
  /\ UNCHANGED <<dbVars, queueVars, envVars>>

\* ------------------------------------------------ downloadMedia: the stages
NoPath == <<>>

\* updateMediaStatus(id, status, localPath?, fileSize?): one row's status,
\* and its path and size when they are given.
updateMediaStatus(id, status, localPath, fileSize) ==
  media' = [media EXCEPT ![id].status = status,
                         ![id].localPath = IF localPath = NoPath THEN @ ELSE localPath,
                         ![id].fileSize = IF fileSize = NoSize THEN @ ELSE fileSize]

\* A loop body without a try: what an iteration throws leaves downloadMedia.
ToItemCatchEscapes(r) == [r EXCEPT !.pc = "catchSetFailed"]

\* An exception inside the loop body's try: its catch awaits
\* updateMediaStatus(media.id, 'failed').
ToItemCatch(r) == [r EXCEPT !.pc = "setMediaFailedCatch"]

\* createMediaBatch: one awaited INSERT per media reference, in source order.
CreateMedia(pr) ==
  LET r == run[pr]
      row == [postId |-> r.postId, type |-> r.items[r.i], sortOrder |-> r.i - 1,
              status |-> "pending", localPath |-> NoPath,
              fileSize |-> sizes[r.postId][r.i].reported]
  IN
  /\ r.pc = "createMedia"
  /\ \E ok \in DbOutcomes :
       /\ Charge(ok)
       /\ IF ok
          THEN /\ media' = Append(media, row)
               /\ SetRun(pr, LET r1 == [r EXCEPT !.recs = Append(@, Len(media) + 1)]
                             IN IF r.i < Len(r.items)
                                THEN [r1 EXCEPT !.i = r.i + 1]
                                ELSE BeginItem(r1, 1))
          ELSE /\ SetRun(pr, ToCatch(r))
               /\ UNCHANGED media
  /\ UNCHANGED <<posts, content, aiResults, groups, queueVars, envVars>>

\* isVideoWithinLimit(media.remoteUrl): the HEAD probe reports a size or none.
Probe(pr) ==
  LET r == run[pr] IN
  /\ r.pc = "probe"
  /\ \E size \in ProbeSizes :
       SetRun(pr, [r EXCEPT !.probe = <<size>>,
                            !.pc = IF isVideoWithinLimit(size)
                                   THEN "setMediaDownloading" ELSE "setSkipped"])
  /\ UNCHANGED <<dbVars, queueVars, envVars, calls>>

SetSkipped(pr) ==
  LET r == run[pr] IN
  /\ r.pc = "setSkipped"
  /\ \E ok \in DbOutcomes :
       /\ Charge(ok)
       /\ IF ok
          THEN /\ updateMediaStatus(r.recs[r.i], "skipped", NoPath, NoSize)
               /\ SetRun(pr, AfterItem(r))
          ELSE /\ SetRun(pr, ToItemCatch(r))
               /\ UNCHANGED media
  /\ UNCHANGED <<posts, content, aiResults, groups, queueVars, envVars>>

SetMediaDownloading(pr) ==
  LET r == run[pr] IN
  /\ r.pc = "setMediaDownloading"
  /\ \E ok \in DbOutcomes :
       /\ Charge(ok)
       /\ IF ok
          THEN /\ updateMediaStatus(r.recs[r.i], "downloading", NoPath, NoSize)
               /\ SetRun(pr, [r EXCEPT !.pc = "downloadFile"])
          ELSE /\ SetRun(pr, ToItemCatch(r))
               /\ UNCHANGED media
  /\ UNCHANGED <<posts, content, aiResults, groups, queueVars, envVars>>

\* downloadFile catches what it throws and returns success or not.
DownloadFile(pr) ==
  LET r == run[pr] IN
  /\ r.pc = "downloadFile"
  /\ \E success \in BOOLEAN :
       SetRun(pr, [r EXCEPT !.pc = IF success THEN "setMediaCompleted"
                                   ELSE "setMediaFailed"])
  /\ UNCHANGED <<dbVars, queueVars, envVars, calls>>

SetMediaCompleted(pr) ==
  LET r == run[pr] IN
  /\ r.pc = "setMediaCompleted"
  /\ \E ok \in DbOutcomes :
       /\ Charge(ok)
       /\ IF ok
          THEN /\ updateMediaStatus(r.recs[r.i], "completed",
                                    getMediaPath(r.postId, r.i - 1, r.items[r.i]),
                                    sizes[r.postId][r.i].actual)
               /\ SetRun(pr, AfterItem(r))
          ELSE /\ SetRun(pr, ToItemCatch(r))
               /\ UNCHANGED media
  /\ UNCHANGED <<posts, content, aiResults, groups, queueVars, envVars>>

SetMediaFailed(pr) ==
  LET r == run[pr] IN
  /\ r.pc = "setMediaFailed"
  /\ \E ok \in DbOutcomes :
       /\ Charge(ok)
       /\ IF ok
          THEN /\ updateMediaStatus(r.recs[r.i], "failed", NoPath, NoSize)
               /\ SetRun(pr, AfterItem([r EXCEPT !.hasFailures = TRUE]))
          ELSE /\ SetRun(pr, ToItemCatch(r))
               /\ UNCHANGED media
  /\ UNCHANGED <<posts, content, aiResults, groups, queueVars, envVars>>

SetMediaFailedCatch(pr) ==
  LET r == run[pr] IN
  /\ r.pc = "setMediaFailedCatch"
  /\ \E ok \in DbOutcomes :
       /\ Charge(ok)
       /\ IF ok
          THEN /\ updateMediaStatus(r.recs[r.i], "failed", NoPath, NoSize)
               /\ SetRun(pr, AfterItem([r EXCEPT !.hasFailures = TRUE]))
          ELSE /\ SetRun(pr, ToCatch(r))
               /\ UNCHANGED media
  /\ UNCHANGED <<posts, content, aiResults, groups, queueVars, envVars>>

\* -------------------------------------------------- analyzePost: the stages
\* Every exception inside analyzePost is caught there and returned as a
\* failure result.
AiGetExisting(pr) ==
  LET r == run[pr] IN
  /\ r.pc = "aiGetExisting"
  /\ \E ok \in DbOutcomes :
       /\ Charge(ok)
       /\ SetRun(pr, IF ~ok THEN AfterAnalyze(r, "throw")
                     ELSE IF aiResults[r.postId] > 0 THEN AfterAnalyze(r, "existing")
                     ELSE [r EXCEPT !.pc = "aiGetPost"])
  /\ UNCHANGED <<dbVars, queueVars, envVars>>

AiGetPost(pr) ==
  LET r == run[pr] IN
  /\ r.pc = "aiGetPost"
  /\ \E ok \in DbOutcomes :
       /\ Charge(ok)
       /\ SetRun(pr, IF ok THEN [r EXCEPT !.pc = "aiGetContent"]
                     ELSE AfterAnalyze(r, "throw"))
  /\ UNCHANGED <<dbVars, queueVars, envVars>>

AiGetContent(pr) ==
  LET r == run[pr] IN
  /\ r.pc = "aiGetContent"
  /\ \E ok \in DbOutcomes :
       /\ Charge(ok)
       /\ SetRun(pr, IF ok THEN [r EXCEPT !.hasContent = content[r.postId] # <<>>,
                                         !.pc = "aiGetMediaCount"]
                     ELSE AfterAnalyze(r, "throw"))
  /\ UNCHANGED <<dbVars, queueVars, envVars>>

\* getMediaCountByPostId, then the check of the content read before it.
AiGetMediaCount(pr) ==
  LET r == run[pr] IN
  /\ r.pc = "aiGetMediaCount"
  /\ \E ok \in DbOutcomes :
       /\ Charge(ok)
       /\ SetRun(pr, IF ~ok THEN AfterAnalyze(r, "throw")
                     ELSE IF ~r.hasContent THEN AfterAnalyze(r, "failure")
                     ELSE [r EXCEPT !.pc = "aiAnalyze"])
  /\ UNCHANGED <<dbVars, queueVars, envVars>>

\* xhsApi.analyze: it throws, returns no data, or returns data with or
\* without a suggested group name.
AnalyzeOutcomes == {"throw", "nodata", NULL} \cup GroupNames

AiAnalyze(pr) ==
  LET r == run[pr] IN
  /\ r.pc = "aiAnalyze"
  /\ \E res \in AnalyzeOutcomes :
       SetRun(pr, CASE res = "throw" -> AfterAnalyze(r, "throw")
                    [] res = "nodata" -> AfterAnalyze(r, "failure")
                    [] res = NULL -> [r EXCEPT !.pc = "aiCreateResult"]
                    [] OTHER -> [r EXCEPT !.suggested = res,
                                          !.pc = "aiGetGroupByName"])
  /\ UNCHANGED <<dbVars, queueVars, envVars, calls>>

\* getOrCreateGroup, first await: getGroupByName.
AiGetGroupByName(pr) ==
  LET r == run[pr] IN
  /\ r.pc = "aiGetGroupByName"
  /\ \E ok \in DbOutcomes :
       /\ Charge(ok)
       /\ SetRun(pr, IF ~ok THEN AfterAnalyze(r, "throw")
                     ELSE IF GroupByName(r.suggested) # 0
                     THEN [r EXCEPT !.groupId = GroupByName(r.suggested),
                                    !.pc = "aiIncrement"]
                     ELSE [r EXCEPT !.pc = "aiCreateGroup"])
  /\ UNCHANGED <<dbVars, queueVars, envVars>>

\* getOrCreateGroup, second await: createGroup.
AiCreateGroup(pr) ==
  LET r == run[pr] IN
  /\ r.pc = "aiCreateGroup"
  /\ \E ok \in DbOutcomes :
       /\ Charge(ok)
       /\ IF ok
          THEN /\ groups' = Append(groups, [name |-> r.suggested, postCount |-> 0])
               /\ SetRun(pr, [r EXCEPT !.groupId = Len(groups) + 1,
                                       !.made = @ + 1,
                                       !.pc = "aiIncrement"])
          ELSE /\ SetRun(pr, AfterAnalyze(r, "throw"))
               /\ UNCHANGED groups
  /\ UNCHANGED <<posts, content, media, aiResults, queueVars, envVars>>

AiIncrement(pr) ==
  LET r == run[pr] IN
  /\ r.pc = "aiIncrement"
  /\ \E ok \in DbOutcomes :
       /\ Charge(ok)
       /\ IF ok
          THEN /\ groups' = [groups EXCEPT ![r.groupId].postCount = @ + 1]
               /\ SetRun(pr, [r EXCEPT !.incs = @ + 1, !.pc = "aiCreateResult"])
          ELSE /\ SetRun(pr, AfterAnalyze(r, "throw"))
               /\ UNCHANGED groups
  /\ UNCHANGED <<posts, content, media, aiResults, queueVars, envVars>>

AiCreateResult(pr) ==
  LET r == run[pr] IN
  /\ r.pc = "aiCreateResult"
  /\ \E ok \in DbOutcomes :
       /\ Charge(ok)
       /\ IF ok /\ aiResults[r.postId] = 0
          THEN /\ aiResults' = [aiResults EXCEPT ![r.postId] = 1]
               /\ SetRun(pr, AfterAnalyze(r, "success"))
          ELSE \* the call failed, or the UNIQUE(post_id) constraint did
               /\ SetRun(pr, AfterAnalyze(r, "throw"))
               /\ UNCHANGED aiResults
  /\ UNCHANGED <<posts, content, media, groups, queueVars, envVars>>

\* --------------------------------------------- downloadPost: the last stage
SetFinal(pr) ==
  LET r == run[pr] IN
  /\ r.pc = "setFinal"
  /\ \E ok \in DbOutcomes :
       /\ Charge(ok)
       /\ IF ok
          THEN /\ posts' = [posts EXCEPT ![r.postId] = FinalStatus(r)]
               /\ SetRun(pr, Finish(notifyProgress(Stored(r, FinalStatus(r)),
                                                   Prog(10000), FinalStatus(r)),
                                    "true"))
          ELSE /\ SetRun(pr, ToCatch(r))
               /\ UNCHANGED posts
  /\ UNCHANGED <<content, media, aiResults, groups, queueVars, envVars>>

\* The catch block of downloadPost; what it throws escapes the run.
CatchSetFailed(pr) ==
  LET r == run[pr] IN
  /\ r.pc = "catchSetFailed"
  /\ \E ok \in DbOutcomes :
       /\ Charge(ok)
       /\ IF ok
          THEN /\ posts' = [posts EXCEPT ![r.postId] = "failed"]
               /\ SetRun(pr, Finish(notifyProgress(Stored(r, "failed"), Prog(0),
                                                   "failed"),
                                    "false"))
          ELSE /\ SetRun(pr, Finish(r, "throw"))
               /\ UNCHANGED posts
  /\ UNCHANGED <<content, media, aiResults, groups, queueVars, envVars>>

\* A getDownloadStatus that counts the skipped records as failed.
getDownloadStatusSkippedFailed(postId) ==
  LET rows == {m \in DOMAIN media : media[m].postId = postId}
  IN [status |-> posts[postId],
      mediaTotal |-> Cardinality(rows),
      mediaCompleted |-> Cardinality({m \in rows : media[m].status = "completed"}),
      mediaFailed |-> Cardinality({m \in rows :
                                     media[m].status \in {"failed", "skipped"}})]

\* getDownloadStatus(postId); the null it returns for a post that is not
\* saved is the record with status NULL.
getDownloadStatus(postId) ==
  LET rows == {m \in DOMAIN media : media[m].postId = postId}
  IN IF posts[postId] = "absent"
     THEN [status |-> NULL, mediaTotal |-> 0, mediaCompleted |-> 0, mediaFailed |-> 0]
     ELSE [status |-> posts[postId],
           mediaTotal |-> Cardinality(rows),
           mediaCompleted |-> Cardinality({m \in rows : media[m].status = "completed"}),
           mediaFailed |-> Cardinality({m \in rows : media[m].status = "failed"})]

\* ------------------------------------------------------------ the scheduler
\* A comparator that sorts the priorities in ascending order.
CompareAscending(a, b) ==
  IF a.priority # b.priority THEN a.priority - b.priority
  ELSE a.addedAt - b.addedAt

\* The comparator of queueDownload's sort: negative when a goes first.
Compare(a, b) ==
  IF a.priority # b.priority THEN b.priority - a.priority
  ELSE a.addedAt - b.addedAt

\* x placed into the sorted sequence s behind every element that does not
\* compare greater: what a stable sort does with an element pushed last.
RECURSIVE InsertSorted(_, _)
InsertSorted(s, x) ==
  IF s = <<>> THEN <<x>>
  ELSE IF Compare(s[Len(s)], x) <= 0 THEN Append(s, x)
  ELSE Append(InsertSorted(SubSeq(s, 1, Len(s) - 1), x), s[Len(s)])

\* Array.prototype.sort with that comparator (a stable sort).
RECURSIVE SortQueue(_)
SortQueue(s) ==
  IF s = <<>> THEN <<>>
  ELSE InsertSorted(SortQueue(SubSeq(s, 1, Len(s) - 1)), s[Len(s)])

\* A duplicate check that finds nothing.
ExistsNever(q, postId) == FALSE

\* A duplicate check that also finds the item whose run is in flight.
ExistsOrRunning(q, postId) ==
  \/ \E k \in 1..Len(q) : q[k].postId = postId
  \/ \E l \in LoopProcs : loopOn[l] /\ loopItem[l].postId = postId

\* queueDownload's duplicate check.
Exists(q, postId) == \E k \in 1..Len(q) : q[k].postId = postId

\* The queue after queueDownload's push and sort.
Enqueued(q, postId, priority, t, n) ==
  SortQueue(Append(q, [postId |-> postId, priority |-> priority,
                       addedAt |-> t, seq |-> n]))

NoItem == [postId |-> NoPost, priority |-> 0, addedAt |-> 0, seq |-> 0]

\* A first line of processQueue that does not look at isProcessing.
CanStartLoopUnguarded(q) == ~(Len(q) = 0)

\* processQueue goes past its first line.
CanStartLoop(q) == ~(isProcessing \/ Len(q) = 0)

FreeLoops == {l \in LoopProcs : ~loopOn[l]}

\* queueDownload(postId, priority), with the processQueue() call it ends in:
\* a loop that starts takes the head and enters downloadPost.
QueueDownload(postId, priority) ==
  /\ calls.enq < limit.enq
  /\ calls' = [calls EXCEPT !.enq = @ + 1]
  /\ \E t \in clock..MaxClock :
       /\ clock' = t
       /\ IF Exists(downloadQueue, postId)
          THEN UNCHANGED <<downloadQueue, isProcessing, loopOn, loopItem, run>>
          ELSE LET q == Enqueued(downloadQueue, postId, priority, t, calls.enq + 1)
               IN IF CanStartLoop(q) /\ FreeLoops # {}
                  THEN LET l == IF "loop1" \in FreeLoops THEN "loop1" ELSE "loop2"
                       IN /\ isProcessing' = TRUE
                          /\ loopOn' = [loopOn EXCEPT ![l] = TRUE]
                          /\ downloadQueue' = Tail(q)
                          /\ loopItem' = [loopItem EXCEPT ![l] = Head(q)]
                          /\ SetRun(l, StartRun(Head(q).postId))
                  ELSE /\ downloadQueue' = q
                       /\ UNCHANGED <<isProcessing, loopOn, loopItem, run>>
  /\ UNCHANGED <<dbVars, envVars, bgPosts>>

\* A processQueue without the try/catch around await downloadPost(...): what
\* the run throws ends the loop, and isProcessing stays set.
LoopResumeNoCatch(l) ==
  /\ loopOn[l]
  /\ run[l].pc = "done"
  /\ IF run[l].ret = "throw"
     THEN /\ loopOn' = [loopOn EXCEPT ![l] = FALSE]
          /\ loopItem' = [loopItem EXCEPT ![l] = NoItem]
          /\ SetRun(l, IdleRun)
          /\ UNCHANGED <<isProcessing, downloadQueue>>
     ELSE IF Len(downloadQueue) > 0
     THEN /\ downloadQueue' = Tail(downloadQueue)
          /\ loopItem' = [loopItem EXCEPT ![l] = Head(downloadQueue)]
          /\ SetRun(l, StartRun(Head(downloadQueue).postId))
          /\ UNCHANGED <<isProcessing, loopOn>>
     ELSE /\ isProcessing' = FALSE
          /\ loopOn' = [loopOn EXCEPT ![l] = FALSE]
          /\ loopItem' = [loopItem EXCEPT ![l] = NoItem]
          /\ SetRun(l, IdleRun)
          /\ UNCHANGED downloadQueue
  /\ UNCHANGED <<dbVars, envVars, bgPosts, clock, calls>>

\* processQueue resumes from await downloadPost(...) (what the run threw is
\* caught and logged): the next item, or the exit of the loop.
LoopResume(l) ==
  /\ loopOn[l]
  /\ run[l].pc = "done"
  /\ IF Len(downloadQueue) > 0
     THEN /\ downloadQueue' = Tail(downloadQueue)
          /\ loopItem' = [loopItem EXCEPT ![l] = Head(downloadQueue)]
          /\ SetRun(l, StartRun(Head(downloadQueue).postId))
          /\ UNCHANGED <<isProcessing, loopOn>>
     ELSE /\ isProcessing' = FALSE
          /\ loopOn' = [loopOn EXCEPT ![l] = FALSE]
          /\ loopItem' = [loopItem EXCEPT ![l] = NoItem]
          /\ SetRun(l, IdleRun)
          /\ UNCHANGED downloadQueue
  /\ UNCHANGED <<dbVars, envVars, bgPosts, clock, calls>>

\* retryDownload(postId): downloadPost, called directly.
RetryDownload(postId) ==
  /\ run["retry"].pc = "idle"
  /\ calls.retry < limit.retry
  /\ calls' = [calls EXCEPT !.retry = @ + 1]
  /\ SetRun("retry", StartRun(postId))
  /\ UNCHANGED <<dbVars, envVars, queueVars>>

\* The caller of retryDownload resumes.
RetryReturn ==
  /\ run["retry"].pc = "done"
  /\ SetRun("retry", IdleRun)
  /\ UNCHANGED <<dbVars, envVars, queueVars, calls>>

\* Posts in created_at DESC order (p2 was saved after p1).
PostsNewestFirst == <<"p2", "p1">>

RECURSIVE SelectStatus(_, _)
SelectStatus(s, status) ==
  IF s = <<>> THEN <<>>
  ELSE IF posts[Head(s)] = status
       THEN <<Head(s)>> \o SelectStatus(Tail(s), status)
       ELSE SelectStatus(Tail(s), status)

Slice(s, n) == SubSeq(s, 1, IF Len(s) < n THEN Len(s) ELSE n)

\* The background fetch task fires: it awaits getAllPosts({status: 'pending'}).
BgFire ==
  /\ run["bg"].pc = "idle"
  /\ calls.bg < limit.bg
  /\ calls' = [calls EXCEPT !.bg = @ + 1]
  /\ SetRun("bg", [IdleRun EXCEPT !.pc = "bgGetAll"])
  /\ UNCHANGED <<dbVars, envVars, queueVars>>

\* The task after downloadPost returned or threw, and after getAllPosts: the
\* next of the (at most 5) posts, or the end of the task.
BgContinue(todo, threw) ==
  IF threw \/ todo = <<>>
  THEN /\ bgPosts' = <<>>
       /\ SetRun("bg", IdleRun)
  ELSE /\ bgPosts' = Tail(todo)
       /\ SetRun("bg", StartRun(Head(todo)))

BgGetAll ==
  /\ run["bg"].pc = "bgGetAll"
  /\ \E ok \in DbOutcomes :
       /\ Charge(ok)
       /\ BgContinue(Slice(SelectStatus(PostsNewestFirst, "pending"), BG_BATCH), ~ok)
  /\ UNCHANGED <<dbVars, envVars, downloadQueue, isProcessing, loopOn, loopItem,
                 clock>>

BgResume ==
  /\ run["bg"].pc = "done"
  /\ BgContinue(bgPosts, run["bg"].ret = "throw")
  /\ UNCHANGED <<dbVars, envVars, downloadQueue, isProcessing, loopOn, loopItem,
                 clock, calls>>

\* ------------------------------------------------------------ share intake
\* The callers of the share handler (the share intent and the clipboard
\* prompt), which may have a call each in progress.
ShareProcs == {"s1", "s2"}

\* A shared text is a sequence of whitespace-separated tokens; a URL is a
\* text of one token.
UrlA == "https://www.xiaohongshu.com/explore/a"
UrlATracked == "http://www.xiaohongshu.com/explore/a?xsec_token=t"
UrlB == "https://xhslink.com/b"
UrlForeign == "https://example.com/a"
Word == "xhs"

Tokens == {UrlA, UrlATracked, UrlB, UrlForeign, Word}

MaxTextTokens == 2

SharedTexts == SeqsUpTo(Tokens, MaxTextTokens)

SharedUrls == SeqsUpTo(Tokens, 1)

\* new URL(text) succeeds: the text starts with a scheme.
IsUrlFormat(text) == text # <<>> /\ Head(text) # Word

\* The three regular expressions of XHS_URL_PATTERNS, anchored at the start.
PatternsTest(text) == text # <<>> /\ Head(text) \in {UrlA, UrlATracked, UrlB}

\* matchesXhsPatterns: XHS_URL_PATTERNS.some(...).  The constant is an object
\* of three patterns, which has no method some: the call throws a TypeError.
\* (Were it an array, the call would test the patterns.)
matchesXhsPatterns(text) ==
  IF xhsUrlPatterns = "object" THEN "throw"
  ELSE IF PatternsTest(text) THEN "true" ELSE "false"

\* isXhsUrl catches what matchesXhsPatterns throws.
isXhsUrl(text) == matchesXhsPatterns(text) = "true"

\* extractXhsUrls: the http(s) tokens of the text that isXhsUrl accepts.
extractXhsUrls(text) ==
  SelectSeq(text, LAMBDA t : IsUrlFormat(<<t>>) /\ isXhsUrl(<<t>>))

\* normalizeUrl: tracking parameters removed, protocol https.
normalizeUrl(url) == IF url = UrlATracked THEN UrlA ELSE url

\* hashUrl: the SHA-256 digest of the string.
hashUrl(url) == "sha256:" \o url

Validation(threw, isValid, url, hash, message) ==
  [threw |-> threw, isValid |-> isValid, normalizedUrl |-> url, urlHash |-> hash,
   errorMessage |-> message]

\* validateXhsUrl(text): a validation result, or the exception of
\* matchesXhsPatterns.
validateXhsUrl(text) ==
  IF text = <<>>
  THEN Validation(FALSE, FALSE, NULL, NULL, "URL cannot be empty")
  ELSE IF ~IsUrlFormat(text)
  THEN Validation(FALSE, FALSE, NULL, NULL, "Invalid URL format")
  ELSE IF matchesXhsPatterns(text) = "throw"
  THEN Validation(TRUE, FALSE, NULL, NULL, NULL)
  ELSE IF matchesXhsPatterns(text) = "false"
  THEN Validation(FALSE, FALSE, NULL, NULL, "URL is not a valid Xiaohongshu link")
  ELSE Validation(FALSE, TRUE, normalizeUrl(Head(text)),
                  hashUrl(normalizeUrl(Head(text))), NULL)

ShareResult(success, post, isDuplicate, message) ==
  [success |-> success, post |-> post, isDuplicate |-> isDuplicate,
   errorMessage |-> message]

IdleShare ==
  [pc |-> "idle", kind |-> "none", todo |-> <<>>, cur |-> NULL, results |-> <<>>,
   ret |-> "none",
   \* history of this call, read only by the properties
   text |-> <<>>, known |-> {}, created |-> {}]

SetShare(s, sh) == share' = [share EXCEPT ![s] = sh]

\* The url_hash values of the saved posts.
SavedHashes == {urlHashes[p] : p \in {q \in PostIds : posts[q] # "absent"}}

\* getPostByUrlHash: the saved post with that hash, or NULL.
getPostByUrlHash(urlHash) ==
  IF \E p \in PostIds : posts[p] # "absent" /\ urlHashes[p] = urlHash
  THEN CHOOSE p \in PostIds : posts[p] # "absent" /\ urlHashes[p] = urlHash
  ELSE NULL

\* The call has its results: it returns them.
ShareDone(sh) == [sh EXCEPT !.pc = "done", !.ret = "value"]

\* The awaited validateXhsUrl of the call, entered with the text.
AwaitValidation(sh, text) == [sh EXCEPT !.pc = "validate", !.cur = validateXhsUrl(text)]

\* processUrl has returned a result: handleSharedContent goes on with its
\* next URL, if it has one.
AfterProcess(sh, result) ==
  LET sh1 == [sh EXCEPT !.results = Append(@, result)]
  IN IF sh1.kind = "urls" /\ Len(sh1.todo) > 1
     THEN AwaitValidation([sh1 EXCEPT !.todo = Tail(@)], <<sh1.todo[2]>>)
     ELSE ShareDone(sh1)

StartShare(kind, text) ==
  [IdleShare EXCEPT !.kind = kind, !.text = text, !.known = SavedHashes]

\* handleSharedUrl(url), up to its await of validateXhsUrl.
HandleSharedUrl(s, url) ==
  /\ share[s].pc = "idle"
  /\ SetShare(s, AwaitValidation(StartShare("url", url), url))
  /\ UNCHANGED <<dbVars, queueVars, run, calls, remote, sizes, progressListeners,
                 limit, downloadTasks, urlHashes, xhsUrlPatterns>>

\* handleSharedContent(text), up to its first await of validateXhsUrl: of the
\* whole text when no URL was extracted, of the first URL otherwise.
HandleSharedContent(s, text) ==
  LET urls == extractXhsUrls(text) IN
  /\ share[s].pc = "idle"
  /\ SetShare(s, IF urls = <<>>
                 THEN AwaitValidation(StartShare("text", text), text)
                 ELSE AwaitValidation([StartShare("urls", text) EXCEPT !.todo = urls],
                                      <<Head(urls)>>))
  /\ UNCHANGED <<dbVars, queueVars, run, calls, remote, sizes, progressListeners,
                 limit, downloadTasks, urlHashes, xhsUrlPatterns>>

\* validateXhsUrl has settled.  What it threw leaves the handler; a valid
\* URL goes to processUrl; an invalid one is a failure result
\* (handleSharedUrl, the whole text) or is passed over (the loop).
Validated(s) ==
  LET sh == share[s]
      v == sh.cur
  IN
  /\ sh.pc = "validate"
  /\ SetShare(s, IF v.threw THEN [sh EXCEPT !.pc = "done", !.ret = "throw"]
                 ELSE IF v.isValid THEN [sh EXCEPT !.pc = "getPostByUrlHash"]
                 ELSE IF sh.kind = "url"
                 THEN ShareDone([sh EXCEPT !.results =
                        <<ShareResult(FALSE, NULL, FALSE, v.errorMessage)>>])
                 ELSE IF sh.kind = "text"
                 THEN ShareDone([sh EXCEPT !.results =
                        <<ShareResult(FALSE, NULL, FALSE,
                                      "No valid XHS URL found in shared content")>>])
                 ELSE IF Len(sh.todo) > 1
                 THEN AwaitValidation([sh EXCEPT !.todo = Tail(@)], <<sh.todo[2]>>)
                 ELSE ShareDone(sh))
  /\ UNCHANGED <<dbVars, queueVars, run, calls, remote, sizes, progressListeners,
                 limit, downloadTasks, urlHashes, xhsUrlPatterns>>

\* processUrl: the duplicate check.
GetPostByUrlHash(s) ==
  LET sh == share[s]
      existing == getPostByUrlHash(sh.cur.urlHash)
  IN
  /\ sh.pc = "getPostByUrlHash"
  /\ SetShare(s, IF existing # NULL
                 THEN AfterProcess(sh, ShareResult(TRUE, existing, TRUE, NULL))
                 ELSE [sh EXCEPT !.pc = "createPost"])
  /\ UNCHANGED <<dbVars, queueVars, run, calls, remote, sizes, progressListeners,
                 limit, downloadTasks, urlHashes, xhsUrlPatterns>>

\* processUrl: createPost.  The INSERT is refused when the url_hash is taken
\* (posts.url_hash is UNIQUE), and processUrl's catch makes the exception a
\* failure result.
CreatePost(s) ==
  LET sh == share[s]
      id == CHOOSE p \in PostIds : posts[p] = "absent"
  IN
  /\ sh.pc = "createPost"
  /\ sh.cur.urlHash \notin SavedHashes => \E p \in PostIds : posts[p] = "absent"
  /\ IF sh.cur.urlHash \notin SavedHashes
     THEN /\ posts' = [posts EXCEPT ![id] = "pending"]
          /\ urlHashes' = [urlHashes EXCEPT ![id] = sh.cur.urlHash]
          /\ SetShare(s, AfterProcess([sh EXCEPT !.created = @ \cup {id}],
                                      ShareResult(TRUE, id, FALSE, NULL)))
     ELSE /\ SetShare(s, AfterProcess(sh, ShareResult(FALSE, NULL, FALSE,
                                                      "UNIQUE constraint failed")))
          /\ UNCHANGED <<posts, urlHashes>>
  /\ UNCHANGED <<content, media, aiResults, groups, queueVars, run, calls, remote,
                 sizes, progressListeners, limit, downloadTasks, xhsUrlPatterns>>

\* The caller of the handler resumes.
ShareReturn(s) ==
  /\ share[s].pc = "done"
  /\ SetShare(s, IdleShare)
  /\ UNCHANGED <<dbVars, queueVars, run, calls, remote, sizes, progressListeners,
                 limit, downloadTasks, urlHashes, xhsUrlPatterns>>

\* The share handler before any call, beside a posts table in which p1 was
\* saved from UrlA and p2, when it is saved, from UrlB.
InitIntake ==
  /\ share = [s \in ShareProcs |-> IdleShare]
  /\ xhsUrlPatterns = "object"
  /\ urlHashes = [p \in PostIds |->
                    IF posts[p] = "absent" THEN NULL
                    ELSE IF p = "p1" THEN hashUrl(UrlA) ELSE hashUrl(UrlB)]

\* ------------------------------------------------------- the specifications
\* The steps of a run outside the media stage.
RunStep(pr) ==
  \/ GetPost(pr) \/ SetDownloading(pr) \/ Crawl(pr) \/ SetFailed(pr)
  \/ GetContent(pr) \/ CreateContent(pr) \/ GetPostTitle(pr)
  \/ AiGetExisting(pr) \/ AiGetPost(pr) \/ AiGetContent(pr) \/ AiGetMediaCount(pr)
  \/ AiAnalyze(pr) \/ AiGetGroupByName(pr) \/ AiCreateGroup(pr) \/ AiIncrement(pr)
  \/ AiCreateResult(pr) \/ SetFinal(pr)

\* The steps of the media stage.
MediaStep(pr) ==
  \/ CreateMedia(pr) \/ Probe(pr) \/ SetSkipped(pr) \/ SetMediaDownloading(pr)
  \/ DownloadFile(pr) \/ SetMediaCompleted(pr) \/ SetMediaFailed(pr)

\* Media references of which the crawl reports no size and the files stay
\* within the ceiling.
PlainSizes(rem) ==
  [k \in DOMAIN rem |-> [reported |-> NoSize, actual |-> MAX_VIDEO_SIZE_BYTES]]

\* What the crawl may report as the size of a file, and what the file may
\* measure once stored.
SizeFacts ==
  [reported : {NoSize, MAX_VIDEO_SIZE_BYTES, MAX_VIDEO_SIZE_BYTES + 1},
   actual : {MAX_VIDEO_SIZE_BYTES, MAX_VIDEO_SIZE_BYTES + 1}]

InitDb ==
  /\ content = [p \in PostIds |-> <<>>]
  /\ media = <<>>
  /\ aiResults = [p \in PostIds |-> 0]
  /\ groups = <<>>
  /\ downloadTasks = <<>>

InitSched ==
  /\ run = [pr \in Procs |-> IdleRun]
  /\ downloadQueue = <<>>
  /\ isProcessing = FALSE
  /\ loopOn = [l \in LoopProcs |-> FALSE]
  /\ loopItem = [l \in LoopProcs |-> NoItem]
  /\ bgPosts = <<>>
  /\ clock = 0
  /\ calls = [enq |-> 0, retry |-> 0, bg |-> 0, faults |-> 0]

\* Spec: the download queue and its drain loop.  Two saved posts, both
\* pending, whose remote pages carry no media; no listener is registered;
\* persistence calls may throw.
Init ==
  /\ InitDb
  /\ InitSched
  /\ posts = [p \in PostIds |-> "pending"]
  /\ remote = [p \in PostIds |-> <<>>]
  /\ sizes = [p \in PostIds |-> PlainSizes(remote[p])]
  /\ progressListeners = <<>>
  /\ limit = [enq |-> MaxEnqueues, retry |-> 0, bg |-> 0, faults |-> MaxFaults]
  /\ InitIntake

Next ==
  \/ \E p \in PostIds, k \in Priorities : QueueDownload(p, k)
  \/ \E l \in LoopProcs : LoopResume(l)
  \/ \E l \in LoopProcs : RunStep(l)
  \/ \E l \in LoopProcs : CatchSetFailed(l)

Spec == Init /\ [][Next]_vars

\* SpecFair: Spec with the event loop running every continuation that is
\* ready (every awaited call of a run returns or throws).
SpecFair ==
  /\ Spec
  /\ WF_vars(\E l \in LoopProcs : LoopResume(l))
  /\ WF_vars(\E l \in LoopProcs : RunStep(l) \/ CatchSetFailed(l))

\* SpecAll: every entry point that starts a run, in every interleaving: the
\* queue, retryDownload and the background fetch task.  p1 is saved and
\* pending, p2 is not saved; a listener is registered; persistence calls do
\* not throw.
InitAll ==
  /\ InitDb
  /\ InitSched
  /\ posts = [p \in PostIds |-> IF p = "p1" THEN "pending" ELSE "absent"]
  /\ remote = [p \in PostIds |-> <<>>]
  /\ sizes = [p \in PostIds |-> PlainSizes(remote[p])]
  /\ progressListeners = <<Listener("l1", 0, FALSE)>>
  /\ limit = [enq |-> MaxOverlapEnqueues, retry |-> MaxOverlapRetries,
              bg |-> MaxBgRuns, faults |-> 0]
  /\ InitIntake

NextAll ==
  \/ \E p \in PostIds, k \in Priorities : QueueDownload(p, k)
  \/ \E l \in LoopProcs : LoopResume(l)
  \/ \E p \in PostIds : RetryDownload(p)
  \/ RetryReturn
  \/ BgFire
  \/ BgGetAll
  \/ BgResume
  \/ \E pr \in Procs : RunStep(pr)
  \/ \E pr \in Procs : CatchSetFailed(pr)

SpecAll == InitAll /\ [][NextAll]_vars

\* SpecRun: the runs of one post, one after the other (each awaited by its
\* caller before the next is requested), with a listener registered and a
\* persistence gateway that does not throw.  p1 is saved, p2 is not.
InitRun ==
  /\ InitDb
  /\ InitSched
  /\ posts = [p \in PostIds |-> IF p = "p1" THEN "pending" ELSE "absent"]
  /\ remote \in [PostIds -> SeqsUpTo(MediaTypes, MaxMedia)]
  /\ remote["p2"] = <<>>
  /\ sizes = [p \in PostIds |-> PlainSizes(remote[p])]
  /\ progressListeners = <<Listener("l1", 0, FALSE)>>
  /\ limit = [enq |-> 0, retry |-> MaxRuns, bg |-> 0, faults |-> 0]
  /\ InitIntake

NextRun ==
  \/ \E p \in PostIds : RetryDownload(p)
  \/ RetryReturn
  \/ RunStep("retry")
  \/ MediaStep("retry")

SpecRun == InitRun /\ [][NextRun]_vars

\* SpecFault: SpecRun with persistence calls that may throw.
MaxRunFaults == 1

InitFault ==
  /\ InitDb
  /\ InitSched
  /\ posts = [p \in PostIds |-> IF p = "p1" THEN "pending" ELSE "absent"]
  /\ remote \in [PostIds -> SeqsUpTo(MediaTypes, MaxMedia)]
  /\ remote["p2"] = <<>>
  /\ sizes = [p \in PostIds |-> PlainSizes(remote[p])]
  /\ progressListeners = <<Listener("l1", 0, FALSE)>>
  /\ limit = [enq |-> 0, retry |-> MaxRuns, bg |-> 0, faults |-> MaxRunFaults]
  /\ InitIntake

NextFault ==
  \/ \E p \in PostIds : RetryDownload(p)
  \/ RetryReturn
  \/ RunStep("retry")
  \/ MediaStep("retry")
  \/ CatchSetFailed("retry")
  \/ SetMediaFailedCatch("retry")

SpecFault == InitFault /\ [][NextFault]_vars

\* SpecSize: one run of one post, whose media references carry every
\* combination of reported, probed and stored size.
MaxSizeRuns == 1

InitSize ==
  /\ InitDb
  /\ InitSched
  /\ posts = [p \in PostIds |-> IF p = "p1" THEN "pending" ELSE "absent"]
  /\ remote \in [PostIds -> SeqsUpTo(MediaTypes, MaxMedia)]
  /\ remote["p2"] = <<>>
  /\ sizes \in [PostIds -> SeqsUpTo(SizeFacts, MaxMedia)]
  /\ \A p \in PostIds : Len(sizes[p]) = Len(remote[p])
  /\ progressListeners = <<Listener("l1", 0, FALSE)>>
  /\ limit = [enq |-> 0, retry |-> MaxSizeRuns, bg |-> 0, faults |-> 0]
  /\ InitIntake

SpecSize == InitSize /\ [][NextRun]_vars

\* SpecListen: one run of one post with two listeners registered, of which
\* one may throw: from any one of the notifications of the run, on that call
\* alone or on every call from it.  Persistence calls do not throw.
MaxListenRuns == 1
MaxThrowAt == 7

ListenerPairs ==
  {<<Listener("l1", a, g), Listener("l2", 0, FALSE)>> :
     a \in 0..MaxThrowAt, g \in BOOLEAN}
  \cup {<<Listener("l1", 0, FALSE), Listener("l2", a, g)>> :
          a \in 0..MaxThrowAt, g \in BOOLEAN}

InitListen ==
  /\ InitDb
  /\ InitSched
  /\ posts = [p \in PostIds |-> IF p = "p1" THEN "pending" ELSE "absent"]
  /\ remote \in [PostIds -> SeqsUpTo(MediaTypes, MaxMedia)]
  /\ remote["p2"] = <<>>
  /\ sizes = [p \in PostIds |-> PlainSizes(remote[p])]
  /\ progressListeners \in ListenerPairs
  /\ \A j \in DOMAIN progressListeners :
       progressListeners[j].throwAt = 0 => ~progressListeners[j].again
  /\ limit = [enq |-> 0, retry |-> MaxListenRuns, bg |-> 0, faults |-> 0]
  /\ InitIntake

SpecListen == InitListen /\ [][NextFault]_vars

\* SpecShare: the share handler, called by two callers in any interleaving,
\* with every text of up to MaxTextTokens tokens; p1 is saved, p2 is not.
InitShare ==
  /\ InitDb
  /\ InitSched
  /\ posts = [p \in PostIds |-> IF p = "p1" THEN "pending" ELSE "absent"]
  /\ remote = [p \in PostIds |-> <<>>]
  /\ sizes = [p \in PostIds |-> PlainSizes(remote[p])]
  /\ progressListeners = <<>>
  /\ limit = [enq |-> 0, retry |-> 0, bg |-> 0, faults |-> 0]
  /\ InitIntake

NextShare ==
  \/ \E s \in ShareProcs, url \in SharedUrls : HandleSharedUrl(s, url)
  \/ \E s \in ShareProcs, text \in SharedTexts : HandleSharedContent(s, text)
  \/ \E s \in ShareProcs : Validated(s)
  \/ \E s \in ShareProcs : ShareReturn(s)

SpecShare == InitShare /\ [][NextShare]_vars

\* SpecShareArray: the share handler as it would run were XHS_URL_PATTERNS
\* an array of the three patterns: processUrl is reached.
InitShareArray ==
  /\ InitDb
  /\ InitSched
  /\ posts = [p \in PostIds |-> IF p = "p1" THEN "pending" ELSE "absent"]
  /\ remote = [p \in PostIds |-> <<>>]
  /\ sizes = [p \in PostIds |-> PlainSizes(remote[p])]
  /\ progressListeners = <<>>
  /\ limit = [enq |-> 0, retry |-> 0, bg |-> 0, faults |-> 0]
  /\ share = [s \in ShareProcs |-> IdleShare]
  /\ xhsUrlPatterns = "array"
  /\ urlHashes = [p \in PostIds |-> IF p = "p1" THEN hashUrl(UrlA) ELSE NULL]

NextShareArray ==
  \/ NextShare
  \/ \E s \in ShareProcs : GetPostByUrlHash(s)
  \/ \E s \in ShareProcs : CreatePost(s)

SpecShareArray == InitShareArray /\ [][NextShareArray]_vars

\* ------------------------------------------------------------------ claims
Range(s) == {s[k] : k \in DOMAIN s}

\* The post ids that wait in the queue, read off the queue itself.
Waiting == {downloadQueue[k].postId : k \in DOMAIN downloadQueue}

ActiveLoops == {l \in LoopProcs : loopOn[l]}

\* C1 (SpecAll).  At most one run of downloadPost is in flight at any time,
\* whatever the interleaving of queueDownload, retryDownload and the
\* background fetch task.
C1_AtMostOneRunInFlight == Cardinality({pr \in Procs : InFlight(pr)}) <= 1

\* C2 (Spec).  A queueDownload(postId, priority) call made while an item of
\* that postId waits in the queue changes nothing: the queue holds the same
\* items (priority and enqueue time included) in the same order, and no loop
\* or run is started or touched.
C2_EnqueueIdempotent ==
  [][\A p \in PostIds, k \in Priorities :
       (QueueDownload(p, k) /\ p \in Waiting)
         => /\ downloadQueue' = downloadQueue
            /\ run' = run
            /\ isProcessing' = isProcessing]_vars

\* A second queueDownload was dropped: two items were accepted (the first is
\* running its first step, the second waits), a third call was made, and no
\* run has got past its first step.
C2_Witness ==
  /\ calls.enq >= 3
  /\ calls.faults = 0
  /\ \A p \in PostIds : posts[p] = "pending"
  /\ Len(downloadQueue) = 1
  /\ downloadQueue[1].seq = 2
  /\ loopItem["loop1"].seq = 1

\* C3 (Spec).  Whenever the drain loop takes an item off the queue, that item
\* has the highest priority among the waiting items and was enqueued first
\* among those of that priority, and the run that starts is the run of that
\* item; a queueDownload made during a run leaves the run in flight as it is.
C3_PriorityThenFifo ==
  [][/\ Len(downloadQueue') < Len(downloadQueue)
        => \E l \in LoopProcs :
             LET x == loopItem'[l] IN
             /\ run[l].pc = "done"
             /\ x \in Range(downloadQueue)
             /\ x \notin Range(downloadQueue')
             /\ Len(downloadQueue') = Len(downloadQueue) - 1
             /\ \A y \in Range(downloadQueue) :
                  /\ y.priority <= x.priority
                  /\ y.priority = x.priority => x.seq <= y.seq
             /\ run'[l].pc = "getPost"
             /\ run'[l].postId = x.postId
     /\ calls'.enq # calls.enq
        => \A l \in LoopProcs : InFlight(l) => /\ run'[l] = run[l]
                                                /\ loopItem'[l] = loopItem[l]]_vars

\* The loop has just taken an item of priority 1 that was enqueued during
\* the run of another item, ahead of an item of priority 0 enqueued earlier,
\* which still waits.
C3_Witness ==
  /\ Len(downloadQueue) = 1
  /\ downloadQueue[1].priority = 0
  /\ \E l \in LoopProcs :
       /\ run[l].pc = "getPost"
       /\ loopItem[l].priority = 1
       /\ loopItem[l].seq > downloadQueue[1].seq
       /\ downloadQueue[1].seq > 1

\* C4 (Spec).  At most one drain loop is active at a time, and a
\* queueDownload call that adds an item starts a loop if and only if no loop
\* was active.
C4_OneDrainLoop ==
  [][/\ Cardinality(ActiveLoops') <= 1
     /\ \A l \in LoopProcs : loopOn[l]' => isProcessing'
     /\ (\/ \E x \in Range(downloadQueue') : x.seq = calls'.enq /\ calls'.enq # calls.enq
         \/ \E l \in LoopProcs : loopItem'[l].seq = calls'.enq /\ calls'.enq # calls.enq)
        => ((ActiveLoops' # ActiveLoops) <=> (ActiveLoops = {}))]_vars

\* Two queueDownload calls arrived while the first run was suspended, both
\* items wait, and the one loop is still the only one.
C4_Witness ==
  /\ Len(downloadQueue) = 2
  /\ ActiveLoops = {"loop1"}
  /\ InFlight("loop1")
  /\ ~InFlight("loop2")

\* C5 (SpecFair).  Every item that queueDownload added to the queue is
\* eventually taken off it by the drain loop and handed to downloadPost, also
\* when the run of an earlier item returned false or threw.
C5_EveryItemDispatched ==
  \A n \in 1..MaxEnqueues :
    (\E k \in DOMAIN downloadQueue : downloadQueue[k].seq = n)
      ~> (\E l \in LoopProcs : /\ loopItem[l].seq = n
                                /\ run[l].pc = "getPost"
                                /\ \A k \in DOMAIN downloadQueue :
                                     downloadQueue[k].seq # n)

\* The second item is handed to downloadPost after the run of the first one
\* threw (its first persistence call failed, so no post changed).
C5_Witness ==
  /\ calls.faults = 1
  /\ \A p \in PostIds : posts[p] = "pending"
  /\ \E l \in LoopProcs : loopItem[l].seq = 2 /\ run[l].pc = "getPost"

\* The step in which the run of pr returns (or throws).
Returns(pr) == run[pr].pc # "done" /\ run'[pr].pc = "done"

\* A step taken by the run of pr.
StepOf(pr) == run'[pr] # run[pr]

Last(s) == s[Len(s)]

TerminalSent(r) == {k \in DOMAIN r.sent : r.sent[k][3] \in TerminalPost}

\* The status that the media records created by run r call for.
StatusFromMedia(r, m) ==
  IF \E id \in Range(r.recs) : m[id].status = "failed" THEN "partial" ELSE "completed"

AiPcs == {"aiGetExisting", "aiGetPost", "aiGetContent", "aiGetMediaCount",
          "aiAnalyze", "aiGetGroupByName", "aiCreateGroup", "aiIncrement",
          "aiCreateResult"}

MediaPcs == {"createMedia", "probe", "setSkipped", "setMediaDownloading",
             "downloadFile", "setMediaCompleted", "setMediaFailed",
             "setMediaFailedCatch"}

\* C6 (SpecAll).  A run whose crawl failed does nothing but store 'failed':
\* when it returns the Post is failed, the last thing it sent the listeners
\* is (postId, 0, failed), it returns false, and it wrote no Content record.
C6_CrawlFailureFailsPost ==
  [][\A pr \in Procs :
       /\ run'[pr].crawl = "fail"
            => /\ run'[pr].pc \in {"setFailed", "catchSetFailed", "done"}
               /\ ~run'[pr].wrote
               /\ StepOf(pr) => content' = content
       /\ (Returns(pr) /\ run'[pr].crawl = "fail")
            => /\ posts'[run'[pr].postId] = "failed"
               /\ run'[pr].ret = "false"
               /\ run'[pr].sent # <<>>
               /\ Last(run'[pr].sent) = <<run'[pr].postId, Prog(0), "failed">>]_vars

\* A run whose crawl failed has returned false while another run of the same
\* post is in flight.
C6_Witness ==
  \E pr \in Procs, other \in Procs :
    /\ pr # other
    /\ run[pr].pc = "done"
    /\ run[pr].crawl = "fail"
    /\ run[pr].ret = "false"
    /\ InFlight(other)
    /\ run[other].postId = run[pr].postId

\* C7 (SpecRun).  A run whose crawl fails creates no Media record (so
\* getDownloadStatus reports mediaTotal = 0 when it was the first run of the
\* post), and sends the listeners exactly one terminal notification, whose
\* fraction is 0.
C7_CrawlFailureNoMedia ==
  [][\A pr \in Procs :
       /\ (StepOf(pr) /\ (run[pr].crawl = "fail" \/ run'[pr].crawl = "fail"))
            => /\ media' = media
               /\ run'[pr].recs = <<>>
       /\ (Returns(pr) /\ run'[pr].crawl = "fail")
            => /\ Cardinality(TerminalSent(run'[pr])) = 1
               /\ \A k \in TerminalSent(run'[pr]) :
                    /\ run'[pr].sent[k][1] = run'[pr].postId
                    /\ run'[pr].sent[k][2] = Prog(0)
               /\ calls.retry = 1 => getDownloadStatus(run[pr].postId)'.mediaTotal = 0]_vars

\* The first run of p1, a post with MaxMedia media references, has returned
\* after a failed crawl.
C7_Witness ==
  /\ calls.retry = 1
  /\ Len(remote["p1"]) = MaxMedia
  /\ run["retry"].pc = "done"
  /\ run["retry"].postId = "p1"
  /\ run["retry"].crawl = "fail"

\* C8 (SpecAll).  When a run whose crawl succeeded returns, the Post is
\* completed if none of the run's media records is failed and partial
\* otherwise.
C8_FinalStatusFromMedia ==
  [][\A pr \in Procs :
       (Returns(pr) /\ run'[pr].crawl = "ok")
         => posts'[run'[pr].postId] = StatusFromMedia(run'[pr], media')]_vars

\* C9 (SpecAll).  A run whose crawl succeeded with no media reference creates
\* no Media record and attempts no transfer, and when it returns the Post is
\* completed and 0.85 was broadcast.
C9_ZeroMediaCompleted ==
  [][\A pr \in Procs :
       /\ (StepOf(pr) /\ run'[pr].crawl = "ok" /\ run'[pr].items = <<>>)
            => /\ media' = media
               /\ run'[pr].pc \notin MediaPcs
       /\ (Returns(pr) /\ run'[pr].crawl = "ok" /\ run'[pr].items = <<>>)
            => /\ posts'[run'[pr].postId] = "completed"
               /\ <<run'[pr].postId, Prog(8500), "downloading">>
                    \in Range(run'[pr].sent)]_vars

\* C10 (SpecRun).  The steps of analyzePost change neither the Post status,
\* nor a Media record, nor the media result of the run, nor what was
\* broadcast; and whatever the outcome of analyzePost (an existing result, a
\* success, a failure result, an exception), the run returns true with the
\* Post status that its media records call for, and its last notification is
\* (postId, 1.0, that status).
C10_EnrichmentNonFatal ==
  [][\A pr \in Procs :
       /\ (StepOf(pr) /\ run[pr].pc \in AiPcs)
            => /\ posts' = posts
               /\ media' = media
               /\ run'[pr].mediaSuccess = run[pr].mediaSuccess
               /\ run'[pr].sent = run[pr].sent
               /\ run'[pr].pc \in AiPcs \cup {"setFinal"}
       /\ (Returns(pr) /\ run'[pr].enrich # "none")
            => /\ run'[pr].ret = "true"
               /\ posts'[run'[pr].postId] = StatusFromMedia(run'[pr], media')
               /\ Last(run'[pr].sent)
                    = <<run'[pr].postId, Prog(10000), StatusFromMedia(run'[pr], media')>>]_vars

\* A run of a post with MaxMedia media references, one of which failed, has
\* returned true after the analysis request threw, and the Post is partial.
C10_Witness ==
  /\ run["retry"].pc = "done"
  /\ run["retry"].enrich = "throw"
  /\ run["retry"].ret = "true"
  /\ Len(run["retry"].recs) = MaxMedia
  /\ posts[run["retry"].postId] = "partial"

\* The step in which analyzePost, called by the run of pr, returns.
AnalyzeReturns(pr) ==
  StepOf(pr) /\ run[pr].pc \in AiPcs /\ run'[pr].pc = "setFinal"

GroupsNamed(gs, name) == {g \in DOMAIN gs : gs[g].name = name}

\* C11 (SpecFault).  When analyzePost returns a success with a suggested
\* group name, there is exactly one group of that name, the run resolved or
\* created it and incremented its post count exactly once; when analyzePost
\* returns a failure, an existing result or no suggestion, the run created
\* no group and incremented no post count.
C11_GroupResolvedOnce ==
  [][\A pr \in Procs :
       AnalyzeReturns(pr)
         => IF run'[pr].enrich = "success" /\ run'[pr].suggested # NULL
            THEN /\ run'[pr].incs = 1
                 /\ run'[pr].made <= 1
                 /\ Cardinality(GroupsNamed(groups', run'[pr].suggested)) = 1
                 /\ groups'[run'[pr].groupId].name = run'[pr].suggested
            ELSE /\ run'[pr].made = 0
                 /\ run'[pr].incs = 0]_vars

\* C12 (SpecAll).  A post never has more than one Content record, and once
\* it has one no run, retry or overlapping run adds another or changes it,
\* whatever text the later crawl extracted.
C12_ContentWrittenOnce ==
  [][\A p \in PostIds :
       /\ Len(content'[p]) <= 1
       /\ content[p] # <<>> => content'[p] = content[p]]_vars

\* A later run of a post whose Content existed has gone through saveContent
\* without writing and has returned true; the one Content record is there.
C12_Witness ==
  \E pr \in Procs :
    /\ run[pr].pc = "done"
    /\ run[pr].ret = "true"
    /\ run[pr].crawl = "ok"
    /\ ~run[pr].wrote
    /\ Len(content[run[pr].postId]) = 1

\* The Media records of a post for the media reference at index k.
RecordsOf(m, postId, k) ==
  {id \in DOMAIN m : m[id].postId = postId /\ m[id].sortOrder = k}

\* The step in which the run of pr calls downloadFile for its current item.
TransferStarts(pr) ==
  StepOf(pr) /\ run[pr].pc # "downloadFile" /\ run'[pr].pc = "downloadFile"

\* C13 (SpecRun).  A run never calls downloadFile for a media reference of
\* which the post already has a completed Media record; and a run that ends
\* its media stage has processed every media reference, those that an
\* earlier run left failed or skipped included.
C13_CompletedNotTransferredAgain ==
  [][\A pr \in Procs :
       /\ TransferStarts(pr)
            => \A id \in RecordsOf(media, run[pr].postId, run[pr].i - 1) :
                 media[id].status # "completed"
       /\ (StepOf(pr) /\ run[pr].pc \in MediaPcs /\ run'[pr].pc \notin MediaPcs
              /\ run'[pr].pc # "catchSetFailed")
            => run'[pr].completedCount = Len(run'[pr].items)]_vars

\* A size that is known and above the ceiling.
Oversize(size) == size \notin {NoSize, NaN} /\ size > MAX_VIDEO_SIZE_BYTES

\* C14 (SpecSize).  No video Media record is completed when the crawl
\* reported for it a size above the ceiling, when the probe before its
\* transfer returned one, or when the stored file measures above it.
C14_OversizeVideoNeverCompleted ==
  /\ \A id \in DOMAIN media :
       (media[id].type = "video" /\ media[id].status = "completed")
         => /\ ~Oversize(sizes[media[id].postId][media[id].sortOrder + 1].reported)
            /\ ~Oversize(media[id].fileSize)
  /\ \A pr \in Procs :
       (run[pr].probe # <<>> /\ Oversize(run[pr].probe[1]))
         => media[run[pr].recs[run[pr].i]].status # "completed"

\* C15 (SpecSize).  A video whose probe returns a known size above the
\* ceiling is marked skipped, with no call of downloadFile, no local path
\* and no failure flagged; a video whose probe returns no known size, or one
\* up to the ceiling, goes on to its transfer; an image is neither probed
\* nor skipped.
C15_ProbeDecidesSkip ==
  [][\A pr \in Procs :
       /\ (StepOf(pr) /\ run[pr].pc = "probe")
            => run'[pr].pc = IF Oversize(run'[pr].probe[1])
                             THEN "setSkipped" ELSE "setMediaDownloading"
       /\ (StepOf(pr) /\ run[pr].pc = "setMediaDownloading")
            => run'[pr].pc = "downloadFile"
       /\ TransferStarts(pr)
            => ~(run[pr].probe # <<>> /\ Oversize(run[pr].probe[1]))
       /\ (StepOf(pr) /\ run[pr].pc = "setSkipped")
            => LET row == media'[run[pr].recs[run[pr].i]] IN
               /\ row.status = "skipped"
               /\ row.localPath = NoPath
               /\ run'[pr].hasFailures = run[pr].hasFailures
       /\ run'[pr].pc \in {"probe", "setSkipped"}
            => run'[pr].items[run'[pr].i] = "video"]_vars

\* The Media records of a post that are in one status.
RowsIn(m, postId, status) ==
  {id \in DOMAIN m : m[id].postId = postId /\ m[id].status = status}

ItemTryPcs == {"probe", "setSkipped", "setMediaDownloading", "downloadFile",
               "setMediaCompleted", "setMediaFailed"}

\* The awaits of one loop iteration, the one in its catch included.
ItemPcs == ItemTryPcs \cup {"setMediaFailedCatch"}

\* C17 (SpecFault).  Isolation inside the media stage.  (a) Nothing that
\* fails or throws inside the try of an iteration ends the run's media stage:
\* the run stays in the loop.  (b) When the transfer of an item returned a
\* failure, or the iteration threw, and the write of 'failed' returned, the
\* item's record is failed, the run has noted a failure, and the run is at the
\* next item, or past the loop after the last one.  (c) While the run is at
\* item i, its records are in source order, those before i are terminal and
\* those after i are still pending.  (d) When the loop is left, every record
\* the run created is completed, failed or skipped.
C17_MediaFailureIsolated ==
  [][\A pr \in Procs :
       LET r == run[pr]
           q == run'[pr]
           n == Len(r.recs)
       IN StepOf(pr) =>
            /\ r.pc \in ItemTryPcs => q.pc \in ItemPcs \cup {"aiGetExisting"}
            /\ (r.pc \in {"setMediaFailed", "setMediaFailedCatch"}
                 /\ q.pc \notin {"setMediaFailedCatch", "catchSetFailed"})
                 => /\ media'[r.recs[r.i]].status = "failed"
                    /\ q.hasFailures
                    /\ IF r.i < n
                       THEN q.i = r.i + 1 /\ q.pc \in {"probe", "setMediaDownloading"}
                       ELSE q.pc = "aiGetExisting"
            /\ q.pc \in ItemPcs
                 => /\ Len(q.recs) = Len(q.items)
                    /\ \A j \in DOMAIN q.recs :
                         /\ media'[q.recs[j]].sortOrder = j - 1
                         /\ media'[q.recs[j]].type = q.items[j]
                         /\ j < q.i => media'[q.recs[j]].status \in TerminalMedia
                         /\ j > q.i => media'[q.recs[j]].status = "pending"
            /\ (r.pc \in ItemPcs /\ q.pc = "aiGetExisting")
                 => \A id \in Range(q.recs) : media'[id].status \in TerminalMedia]_vars

\* The first run of a post with two media items has returned true: an
\* exception was thrown while its first item was handled, that item is failed
\* and the second one was transferred.
C17_Witness ==
  /\ run["retry"].pc = "done"
  /\ run["retry"].ret = "true"
  /\ run["retry"].enrich = "success"
  /\ calls.retry = 1
  /\ calls.faults = 1
  /\ Len(run["retry"].recs) = 2
  /\ media[run["retry"].recs[1]].status = "failed"
  /\ media[run["retry"].recs[2]].status = "completed"
  /\ posts[run["retry"].postId] = "partial"

\* The notifications that the step adds to what the run of pr has sent.
NewlySent(pr) == (Len(run[pr].sent) + 1)..Len(run'[pr].sent)

\* C18 (SpecRun).  Progress of one run.  Every notification a run sends
\* carries a fraction between 0 and 1 that is not below the fraction of the
\* notification the run sent before it; and the notification that ends a loop
\* iteration of the media stage carries 0.4 + (processed / count) * 0.45.
C18_ProgressMonotone ==
  [][\A pr \in Procs :
       LET r == run[pr]
           q == run'[pr]
       IN (StepOf(pr) /\ q.postId = r.postId) =>
            /\ \A k \in NewlySent(pr) :
                 /\ q.sent[k][1] = q.postId
                 /\ ProgLeq(Prog(0), q.sent[k][2])
                 /\ ProgLeq(q.sent[k][2], Prog(10000))
                 /\ k > 1 => ProgLeq(q.sent[k - 1][2], q.sent[k][2])
            /\ (r.pc \in ItemPcs /\ q.completedCount = r.completedCount + 1)
                 => /\ NewlySent(pr) # {}
                    /\ q.sent[Len(r.sent) + 1] =
                         <<q.postId, TotalProgress(q.completedCount, Len(q.recs)),
                           "downloading">>]_vars

\* The fractions of the media stage alone: they do not decrease from one
\* loop iteration to the next and lie between 0.4 and 0.85 and one unit in the
\* last place.
C18_MediaFractionsMonotone ==
  [][\A pr \in Procs :
       LET r == run[pr]
           q == run'[pr]
       IN (StepOf(pr) /\ r.pc \in ItemPcs /\ q.completedCount = r.completedCount + 1)
            => /\ ProgLeq(Last(r.sent)[2], q.sent[Len(r.sent) + 1][2])
               /\ ProgLeq(Prog(4000), q.sent[Len(r.sent) + 1][2])
               /\ ProgLeq(q.sent[Len(r.sent) + 1][2], <<8500, 1>>)]_vars

\* C19 (SpecListen).  A listener that throws is contained.  Every
\* notification a run publishes reaches every registered listener; no run
\* enters an exception handler or throws (nothing but a listener throws
\* here); and a run ends as it does with listeners that return: the crawl
\* failed, the Post is failed and the run returns false, or the crawl
\* succeeded, every record of the run is terminal, a record whose probe found
\* the video above the ceiling is skipped, the Post is completed or partial as
\* its records say and the run returns true.
C19_ListenerThrowContained ==
  [][\A pr \in Procs :
       LET r == run[pr]
           q == run'[pr]
       IN StepOf(pr) =>
            /\ \A k \in NewlySent(pr) :
                 \A j \in DOMAIN progressListeners :
                   <<progressListeners[j].id, k>> \in q.heard
            /\ q.pc \notin {"setMediaFailedCatch", "catchSetFailed"}
            /\ (r.pc = "setSkipped" /\ q.pc # "setSkipped")
                 => media'[r.recs[r.i]].status = "skipped"
            /\ Returns(pr)
                 => /\ q.ret # "throw"
                    /\ q.crawl = "fail"
                         => q.ret = "false" /\ posts'[q.postId] = "failed"
                    /\ q.crawl = "ok"
                         => /\ q.ret = "true"
                            /\ posts'[q.postId] = StatusFromMedia(q, media')
                            /\ \A id \in Range(q.recs) :
                                 media'[id].status \in TerminalMedia]_vars

\* C20 (SpecFault).  Nothing escapes downloadPost.  Whatever fails during a
\* run, the run returns true or false and never throws; a run that returns
\* false leaves a Post that exists failed; and no run leaves its Post
\* downloading.
C20_NoExceptionEscapes ==
  [][\A pr \in Procs :
       Returns(pr) =>
         /\ run'[pr].ret \in {"true", "false"}
         /\ run'[pr].ret = "false"
              => posts'[run'[pr].postId] \in {"absent", "failed"}
         /\ posts'[run'[pr].postId] # "downloading"]_vars

\* The run of pr returns a value in this step.
ReturnsValue(pr) == Returns(pr) /\ run'[pr].ret \in {"true", "false"}

\* C21 as stated (SpecFault).  A run returns false exactly when it ends with
\* its Post failed, and a run whose crawl succeeded and in which nothing but
\* transfers and enrichment failed (no persistence call has thrown) returns
\* true with the Post completed or partial.
C21_FalseIffFailedAnyPost ==
  [][\A pr \in Procs :
       ReturnsValue(pr) =>
         /\ run'[pr].ret = "false" <=> posts'[run'[pr].postId] = "failed"
         /\ (run'[pr].crawl = "ok" /\ calls'.faults = 0)
              => /\ run'[pr].ret = "true"
                 /\ posts'[run'[pr].postId] \in {"completed", "partial"}]_vars

\* C21 amended (SpecFault).  For a post that exists, a run returns false
\* exactly when it ends with the Post failed, and a run whose crawl succeeded
\* and in which nothing but transfers and enrichment failed (no persistence
\* call has thrown) returns true with the Post completed or partial.  (For a post that does not exist the run
\* returns false and there is no Post to be failed.)
C21_FalseIffFailed ==
  [][\A pr \in Procs :
       (ReturnsValue(pr) /\ posts[run'[pr].postId] # "absent") =>
         /\ run'[pr].ret = "false" <=> posts'[run'[pr].postId] = "failed"
         /\ (run'[pr].crawl = "ok" /\ calls'.faults = 0)
              => /\ run'[pr].ret = "true"
                 /\ posts'[run'[pr].postId] \in {"completed", "partial"}]_vars

\* A run has returned true although one of its transfers failed and the
\* analysis failed, no persistence call having thrown: the Post is partial.
C21_Witness ==
  /\ run["retry"].pc = "done"
  /\ run["retry"].ret = "true"
  /\ run["retry"].enrich = "throw"
  /\ calls.faults = 0
  /\ \E id \in Range(run["retry"].recs) : media[id].status = "failed"
  /\ \E id \in Range(run["retry"].recs) : media[id].status = "completed"
  /\ posts[run["retry"].postId] = "partial"

\* The download_tasks rows of a post.
TasksOf(tasks, postId) == {k \in DOMAIN tasks : tasks[k].postId = postId}

\* C22 (SpecRun).  The Task record follows the run.  When a run whose crawl
\* failed returns, the post has a Task that is failed and holds the crawl's
\* error message; when a run that finalized returns, the post has a Task that
\* is completed with progress 1.
C22_TaskRecordsOutcome ==
  [][\A pr \in Procs :
       Returns(pr) =>
         /\ run'[pr].crawl = "fail"
              => \E k \in TasksOf(downloadTasks', run'[pr].postId) :
                   /\ downloadTasks'[k].status = "failed"
                   /\ downloadTasks'[k].errorMessage = run[pr].error
         /\ run'[pr].ret = "true"
              => \E k \in TasksOf(downloadTasks', run'[pr].postId) :
                   /\ downloadTasks'[k].status = "completed"
                   /\ downloadTasks'[k].progress = Prog(10000)]_vars

\* The step in which the share-handler call of s returns (or throws).
ShareReturns(s) == share[s].pc # "done" /\ share'[s].pc = "done"

\* The saved post with that url_hash, in the state the step leads to.
PostWithHash(h) ==
  {p \in PostIds : posts'[p] # "absent" /\ urlHashes'[p] = h}

\* The tokens of a shared text that are links to a post, by the three
\* patterns.
LinksOf(text) == {text[k] : k \in {j \in DOMAIN text : PatternsTest(<<text[j]>>)}}

\* C23 (SpecShare).  urlHash is unique and sharing is idempotent.  No two
\* saved posts have the same urlHash; and when a call of the share handler
\* returns, every link of the shared text whose urlHash was saved when the
\* call was made has a result with the saved post and isDuplicate = true, and
\* the call created no post for it.
C23_UrlHashUnique ==
  [][/\ \A p, q \in PostIds :
          (p # q /\ posts'[p] # "absent" /\ posts'[q] # "absent")
            => urlHashes'[p] # urlHashes'[q]
     /\ \A s \in ShareProcs :
          ShareReturns(s) =>
            \A u \in LinksOf(share'[s].text) :
              LET h == hashUrl(normalizeUrl(u))
              IN h \in share'[s].known
                   => /\ share'[s].ret = "value"
                      /\ \E k \in DOMAIN share'[s].results :
                           /\ share'[s].results[k].success
                           /\ share'[s].results[k].isDuplicate
                           /\ share'[s].results[k].post \in PostWithHash(h)
                      /\ \A p \in share'[s].created : urlHashes'[p] # h]_vars

\* Sharing is idempotent also for a link that is saved while the call is
\* under way: every result of a call is a success that names the post saved
\* for its link.
C23_NoFailedResult ==
  [][\A s \in ShareProcs :
       ShareReturns(s) =>
         \A u \in LinksOf(share'[s].text) :
           /\ share'[s].ret = "value"
           /\ \E k \in DOMAIN share'[s].results :
                /\ share'[s].results[k].success
                /\ share'[s].results[k].post \in PostWithHash(hashUrl(normalizeUrl(u)))]_vars

\* C24 (SpecFault).  One terminal broadcast per run.  When a run for a post
\* that exists ends, it has broadcast exactly one notification with a terminal
\* status, that notification is the last one it sent, its status is the
\* status stored on the Post, and when the run returns true its fraction is 1.
C24_OneTerminalBroadcast ==
  [][\A pr \in Procs :
       LET q == run'[pr]
       IN (Returns(pr) /\ posts[q.postId] # "absent") =>
            /\ Cardinality(TerminalSent(q)) = 1
            /\ TerminalSent(q) = {Len(q.sent)}
            /\ Last(q.sent)[3] = posts'[q.postId]
            /\ q.ret = "true" => Last(q.sent)[2] = Prog(10000)]_vars

\* C25 (SpecListen).  The life of the Post status in one run.  When a run for
\* a post that exists returns, it has stored downloading first and one
\* terminal status after it, nothing else, and the Post has that terminal
\* status; and no run that has ended, returning or throwing, leaves the Post
\* downloading.
C25_PostStatusLifecycle ==
  [][\A pr \in Procs :
       LET q == run'[pr]
       IN /\ (ReturnsValue(pr) /\ posts[q.postId] # "absent")
               => /\ Len(q.statuses) = 2
                  /\ q.statuses[1] = "downloading"
                  /\ q.statuses[2] \in TerminalPost
                  /\ posts'[q.postId] = q.statuses[2]
          /\ Returns(pr) => posts'[q.postId] # "downloading"]_vars

\* C26 (SpecFault).  Within one run the stages happen in order.  The run
\* writes the Content record only after its crawl succeeded; it creates a
\* Media record only when the Content record exists and while every record
\* it created is still pending; it attempts an item only when a record exists
\* for every reference and every earlier item is terminal; it calls
\* analyzePost only when every reference has a record and every record is
\* terminal; it stores the final status only after analyzePost has returned.
EntersItem(pr) ==
  /\ run'[pr].pc \in {"probe", "setMediaDownloading"}
  /\ run[pr].pc = "createMedia" \/ run'[pr].i # run[pr].i

C26_StagesInOrder ==
  [][\A pr \in Procs :
       LET r == run[pr]
           q == run'[pr]
       IN /\ (q.wrote /\ ~r.wrote) => r.crawl = "ok"
          /\ Len(q.recs) > Len(r.recs)
               => /\ content[r.postId] # <<>>
                  /\ r.crawl = "ok"
                  /\ \A id \in Range(r.recs) : media[id].status = "pending"
          /\ EntersItem(pr)
               => /\ Len(q.recs) = Len(q.items)
                  /\ \A j \in 1..(q.i - 1) :
                       media'[q.recs[j]].status \in TerminalMedia
                  /\ \A j \in q.i..Len(q.recs) :
                       media'[q.recs[j]].status = "pending"
          /\ (q.pc = "aiGetExisting" /\ r.pc # "aiGetExisting")
               => /\ Len(q.recs) = Len(q.items)
                  /\ \A id \in Range(q.recs) : media'[id].status \in TerminalMedia
          /\ (r.pc = "setFinal" /\ Len(q.statuses) > Len(r.statuses))
               => /\ r.enrich # "none"
                  /\ \A id \in Range(r.recs) : media[id].status \in TerminalMedia]_vars

\* A run of two references wrote the Content record, took both items to a
\* terminal status, called analyzePost and stored the final status.
C26_Witness ==
  LET r == run["retry"]
  IN /\ r.pc = "done" /\ r.ret = "true"
     /\ r.wrote
     /\ Len(r.recs) = 2
     /\ media[r.recs[1]].status = "failed"
     /\ media[r.recs[2]].status = "completed"
     /\ r.enrich = "success"
     /\ posts[r.postId] = "partial"

\* C27 (SpecFair).  No work is stranded.  Whenever isProcessing is false the
\* queue is empty (queueDownload runs to its end in one step, so no call of it
\* is executing in any state); the loop that resumes from a run on an empty
\* queue clears isProcessing, whether the run returned or threw; a
\* queueDownload that adds an item while isProcessing is false starts a loop;
\* and a loop that is active eventually stops.
C27_NoStrandedWork ==
  /\ [](~isProcessing => downloadQueue = <<>>)
  /\ [][/\ \A l \in LoopProcs :
             (loopOn[l] /\ run[l].pc = "done" /\ StepOf(l) /\ downloadQueue = <<>>)
               => (~isProcessing' /\ ~loopOn'[l] /\ downloadQueue' = <<>>)
        /\ (calls'.enq # calls.enq /\ ~isProcessing)
             => (isProcessing' /\ ActiveLoops' # {})]_vars
  /\ (isProcessing ~> ~isProcessing)

\* The one run of the loop threw (its first persistence call failed, so no
\* post changed), and the loop has ended: isProcessing is false again and
\* the queue is empty.
C27_Witness ==
  /\ calls.faults = 1
  /\ calls.enq = 1
  /\ \A p \in PostIds : posts[p] = "pending"
  /\ ~isProcessing
  /\ ActiveLoops = {}
  /\ downloadQueue = <<>>

\* C28 (SpecFair).  The duplicate check of queueDownload looks at the waiting
\* items only.  A queueDownload(p) made while the loop's run of p is in flight
\* and no item of p waits adds an item of p and leaves the run as it is; the
\* loop starts a run of a post only when no loop's run of that post is in
\* flight; and the item added is eventually handed to downloadPost.
RunningInLoop(p) == \E l \in LoopProcs : InFlight(l) /\ run[l].postId = p

C28_RequeueWhileRunning ==
  /\ [][/\ \A p \in PostIds, k \in Priorities :
             (QueueDownload(p, k) /\ p \notin Waiting /\ RunningInLoop(p))
               => /\ Len(downloadQueue') = Len(downloadQueue) + 1
                  /\ \E x \in Range(downloadQueue') :
                       x.postId = p /\ x.seq = calls'.enq
                  /\ run' = run
        /\ \A l \in LoopProcs :
             (run'[l].pc = "getPost" /\ run[l].pc # "getPost")
               => ~RunningInLoop(run'[l].postId)]_vars
  /\ \A n \in 1..MaxEnqueues :
       (\E k \in DOMAIN downloadQueue :
          downloadQueue[k].seq = n /\ RunningInLoop(downloadQueue[k].postId))
         ~> (\E l \in LoopProcs : loopItem[l].seq = n /\ run[l].pc = "getPost")

\* The run of p1 has stored 'downloading' and is suspended, and the item of
\* a second queueDownload(p1) waits behind it.
C28_Witness ==
  /\ calls.enq = 2
  /\ run["loop1"].postId = "p1" /\ run["loop1"].pc = "crawl"
  /\ posts["p1"] = "downloading"
  /\ Len(downloadQueue) = 1
  /\ downloadQueue[1].postId = "p1" /\ downloadQueue[1].seq = 2

\* C29 (SpecRun).  The Post status and the media accounting agree: whenever
\* the stored status of a post is completed, getDownloadStatus reports no
\* failed media for it and a mediaTotal equal to the number of media
\* references its crawl returned.
C29_StatusAgreesWithMedia ==
  \A p \in PostIds :
    posts[p] = "completed"
      => /\ getDownloadStatus(p).mediaFailed = 0
         /\ getDownloadStatus(p).mediaTotal = Len(remote[p])

\* The increments of group post counts made so far: every group starts at 0
\* and incrementGroupPostCount is the only writer of post_count that has a
\* caller (decrementGroupPostCount and recalculateGroupPostCount have none).
RECURSIVE Increments(_)
Increments(gs) ==
  IF gs = <<>> THEN 0 ELSE Head(gs).postCount + Increments(Tail(gs))

\* C30 (SpecFault).  Enrichment is idempotent per post.  p1 is the only
\* saved post: over all its runs and retries it has at most one AI result and
\* at most one increment of a group's post count was made on its behalf.
C30_EnrichmentIdempotent ==
  /\ \A p \in PostIds : aiResults[p] <= 1
  /\ Increments(groups) <= 1

====
